---- MODULE Spec2Model ----
(***************************************************************************)
(* Model of the fetch cache and the fetch orchestrator of                  *)
(* src/data_processing: data_loader.py (load_data, _read_dataset, the      *)
(* lru_cache around _read_dataset_cached, load_data_batch, load_variables, *)
(* load_time_series) and utils.py (read_from_disk_cache,                   *)
(* write_to_disk_cache).                                                   *)
(*                                                                         *)
(* Spec      threads that call load_data concurrently: disk cache, memory  *)
(*           cache (functools.lru_cache), remote read, disk write.         *)
(* SpecRestart  Spec plus a stop and restart of the process at any point,  *)
(*           which keeps the cache directory.                              *)
(* SpecOrch  one call of load_data_batch, load_variables or                *)
(*           load_time_series over a list of items, sequential or on the   *)
(*           ThreadPoolExecutor, every item a load_data call.              *)
(* SpecTiers Spec with a memory cache of one entry, two keys that evict     *)
(*           each other, and _read_dataset_cached.cache_clear().           *)
(* SpecLru   Spec with the disk cache disabled and a memory cache of       *)
(*           MaxCacheSize entries.                                         *)
(* SpecCfg   Spec for one repeated request, started with the disk cache    *)
(*           enabled or disabled over a cache directory that may hold a    *)
(*           file of an earlier run; the file may get damaged.             *)
(* SpecHeal  SpecCfg with the disk cache enabled and every write           *)
(*           succeeding.                                                   *)
(* SpecConn  SpecLru with get_database_connection taken step by step:      *)
(*           test of _db, ov.LoadDataset, return.                          *)
(* SpecDates date_to_timestep_index and timestep_index_to_date applied to  *)
(*           a date.                                                       *)
(* SpecSeries  the dates load_time_series steps through and                *)
(*           _evenly_subsample_dates reduces.                              *)
(***************************************************************************)
EXTENDS Integers, Sequences, FiniteSets, TLC

\* ------------------------------------------------------------------ bounds
\* Number of threads that call load_data concurrently.
NThreads == 2
\* Number of distinct cache keys (field, timestep_idx, quality).
NKeys == 3
\* Number of distinct keys requested in the runs with process restarts.
NRestartKeys == 1

\* Number of distinct item names (variables, dates) of an orchestrated call.
NNames == 2
\* Longest item list (requests, variables, dates) of an orchestrated call.
MaxItems == 3
\* Largest explicit max_workers argument.
MaxWorkersArg == 2

\* config.MAX_WORKERS: int(os.environ.get("NEX_GDDP_MAX_WORKERS", "3")).
MAX_WORKERS == 3

Threads == 1..NThreads
Keys == 1..NKeys
RestartKeys == {k \in Keys : k <= NRestartKeys}
Names == {k \in Keys : k <= NNames}

\* Largest NEX_GDDP_MEMORY_CACHE setting of the runs that draw the setting.
MaxCacheSize == 2

VARIABLES
    pc,           \* pc[t]: where thread t is inside load_data
    key,          \* key[t]: the key (field, timestep_idx, quality) of t's call
    res,          \* res[t]: how t's last call ended
    final,        \* final[k]: the file at disk_cache_path(k)
    tmp,          \* tmp[k]: the file at disk_cache_path(k).with_suffix('.tmp.npy')
    lock,         \* holder of utils._disk_cache_lock, 0 when free
    cache,        \* the lru_cache of _read_dataset_cached: keys, least recent first
    db,           \* data_loader._db: 0 is None, 1 is the opened dataset
    diskEnabled,  \* config.DISK_CACHE_ENABLED
    maxsize,      \* config.MEMORY_CACHE_MAXSIZE, read from NEX_GDDP_MEMORY_CACHE at import
    joined,       \* joined[t]: another thread's remote read of key[t] was in flight when t's call arrived (kept until t's call or its own read ends)
    info,         \* info[k]: for a key the memory cache held when the process last stopped, whether its disk file existed then
    mode,         \* the orchestrated call: "batch", "variables" or "series"
    items,        \* its input list: requests, variables or dates, each named by its key
    bad,          \* the items (by name) that fail validation in load_data
    maxw,         \* the max_workers argument: <<>> is None, <<n>> is the integer n
    opc,          \* where the calling thread is
    st,           \* st[i]: the future of item i: "pending", "running" or "done"
    out,          \* out[i]: how the load_data call of item i ended
    consumed,     \* the futures as_completed has yielded
    ordered,      \* the list the call builds
    outcome,      \* what the call returned or raised
    held,         \* held[t], for the callers t whose results the run records: the array t's last successful call returned; kept during t's next call only when that call repeats the parameters
    mval,         \* mval[k]: the array object the lru_cache entry of k holds
    fblob,        \* fblob[k]: the content of the file at disk_cache_path(k), 0 when absent
    tblob,        \* tblob[k]: the content of the temporary file of k, 0 when absent
    dataDir,      \* config.DATA_CACHE_DIR exists
    healed,       \* healed[t]: read_from_disk_cache found the file of t's call unloadable
    conv,         \* one date, its timestep index and the date computed back from it
    ts,           \* one time-series request, its dates and the subsampled dates
    conns         \* the datasets ov.LoadDataset opened (their number) and the dataset objects get_database_connection returned, where a run takes its steps one by one

cvars == <<pc, key, res, final, tmp, lock, cache, db, diskEnabled, maxsize, joined, info>>
ovars == <<mode, items, bad, maxw, opc, st, out, consumed, ordered, outcome>>
tvars == <<held, mval, fblob, tblob, dataDir, healed>>
xvars == <<conv, ts>>
vars == <<cvars, ovars, tvars, xvars, conns>>

\* config.MEMORY_CACHE_MAXSIZE = int(os.environ.get("NEX_GDDP_MEMORY_CACHE", "32")),
\* the maxsize of the lru_cache around _read_dataset_cached.
MEMORY_CACHE_MAXSIZE == maxsize

\* ------------------------------------------------------------- helpers
Ok(r) == r \in {"disk", "mem", "remote"}

InCache(k) == \E i \in 1..Len(cache) : cache[i] = k

Remove(s, k) == SelectSeq(s, LAMBDA x : x # k)

\* A hit that leaves the order of the entries as it is (first in, first out).
LruKeep(s, k) == s

\* functools.lru_cache, hit: the entry becomes the most recently used.
LruTouch(s, k) == Append(Remove(s, k), k)

\* functools.lru_cache, after the user function returned: a key that another thread
\* inserted meanwhile is left as it is; a full cache drops its least recently used entry.
LruPut(s, k) ==
    IF \E i \in 1..Len(s) : s[i] = k THEN s
    ELSE IF Len(s) >= MEMORY_CACHE_MAXSIZE THEN Append(Tail(s), k)
    ELSE Append(s, k)

\* load_data returns or raises: the thread is idle again and res[t] keeps the outcome.
Finish(t, r) ==
    /\ pc' = [pc EXCEPT ![t] = "idle"]
    /\ res' = [res EXCEPT ![t] = r]
    /\ joined' = [joined EXCEPT ![t] = FALSE]

\* ------------------------------------------------------------- rasters
\* An array object: its kind (ndarray from the remote read, memmap from np.load),
\* the thread whose call created it, the key whose content it holds and its
\* writeable flag.
NoObj == [kind |-> "none", by |-> 0, of |-> 0, w |-> FALSE]

\* The callers whose returned arrays the run records in held, and the array a
\* caller holds. The arrays created by the other callers are not told apart.
Observed == DOMAIN held
Held(t) == IF t \in Observed THEN held[t] ELSE NoObj
Creator(t) == IF t \in Observed THEN t ELSE 0

\* db.read(time=timestep_idx, field=field, quality=quality): the dataset holds one
\* fixed content per key; the content is named by the key.
RemoteContent(k) == k

\* The array left writeable.
LeaveWriteable(a) == a

\* data.setflags(write=False).
SetReadOnly(a) == [a EXCEPT !.w = FALSE]

\* db.read called with the first key whatever key was asked for.
ReadArrayOfFirst(t, k) ==
    SetReadOnly([kind |-> "array", by |-> Creator(t), of |-> RemoteContent(1), w |-> TRUE])

\* The local data of _read_dataset_cached after lines 47-48: the new ndarray that
\* db.read returned, made read-only.
ReadArray(t, k) ==
    SetReadOnly([kind |-> "array", by |-> Creator(t), of |-> RemoteContent(k), w |-> TRUE])

\* read_from_disk_cache, lines 221-223: a new read-only memmap (mmap_mode='r') of
\* the file at disk_cache_path(k).
Memmap(t, k) ==
    SetReadOnly([kind |-> "memmap", by |-> Creator(t), of |-> fblob[k], w |-> FALSE])

\* The lru_cache wrapper handing out a copy of the stored value.
CacheHitCopy(t, k) == [mval[k] EXCEPT !.by = 0 - t]

\* The lru_cache wrapper on a hit: the stored object itself is returned.
CacheHit(t, k) == mval[k]

\* load_data hands the array o to its caller.
Hand(t, o) == held' = IF t \in Observed THEN [held EXCEPT ![t] = o] ELSE held

\* ensure_cache_environment, lines 198-199: the data-cache directory is created
\* only when the disk cache is enabled.
EnsureCacheEnvironment(existed, enabled) == existed \/ enabled

Conv0 == [date |-> <<0, 0, 0>>, timestep |-> 0, back |-> <<0, 0, 0>>, stage |-> "off"]
Ts0 == [start |-> <<0, 0, 0>>, end |-> <<0, 0, 0>>, step |-> 0, cap |-> 0,
        dates |-> <<>>, reduced |-> <<>>, stage |-> "off"]

\* _db = None (data_loader.py line 26): no dataset was opened, none returned.
Conns0 == [opened |-> 0, returned |-> {}]

\* ------------------------------------------------------------- Init
Init ==
    /\ pc = [t \in Threads |-> "idle"]
    /\ key = [t \in Threads |-> 1]
    /\ res = [t \in Threads |-> "none"]
    /\ final = [k \in Keys |-> "absent"]
    /\ tmp = [k \in Keys |-> "absent"]
    /\ lock = 0
    /\ cache = <<>>
    /\ db = 0
    /\ diskEnabled = TRUE
    /\ maxsize = 1
    /\ joined = [t \in Threads |-> FALSE]
    /\ info = [k \in Keys |-> "none"]
    /\ mode = "batch"
    /\ items = <<>>
    /\ bad = {}
    /\ maxw = <<>>
    /\ opc = "idle"
    /\ st = <<>>
    /\ out = <<>>
    /\ consumed = {}
    /\ ordered = <<>>
    /\ outcome = [kind |-> "none", list |-> <<>>, err |-> 0]
    /\ held = [t \in {} |-> NoObj]
    /\ mval = [k \in Keys |-> NoObj]
    /\ fblob = [k \in Keys |-> 0]
    /\ tblob = [k \in Keys |-> 0]
    /\ dataDir = EnsureCacheEnvironment(FALSE, TRUE)
    /\ healed = [t \in Threads |-> FALSE]
    /\ conv = Conv0
    /\ ts = Ts0
    /\ conns = Conns0

\* ------------------------------------------------------------- load_data
\* load_data, lines 86-103, of a valid request: parse_date, infer_scenario_from_date
\* and validate_all_parameters pass, the key is derived, _read_dataset is entered.
Call(t, k) ==
    /\ pc[t] = "idle"
    /\ key' = [key EXCEPT ![t] = k]
    /\ joined' = [joined EXCEPT ![t] = \E u \in Threads : pc[u] = "reading" /\ key[u] = k]
    /\ pc' = [pc EXCEPT ![t] = "disk"]
    /\ res' = [res EXCEPT ![t] = "none"]
    /\ Hand(t, IF Ok(res[t]) /\ key[t] = k THEN Held(t) ELSE NoObj)
    /\ healed' = [healed EXCEPT ![t] = FALSE]
    /\ UNCHANGED <<final, tmp, lock, cache, db, diskEnabled, maxsize, info>>
    /\ UNCHANGED <<mval, fblob, tblob, dataDir>>
    /\ UNCHANGED <<ovars, xvars, conns>>

\* load_data, lines 86-94 and 129-130, of an invalid request: ParameterValidationError
\* is raised before a key is derived.
CallInvalid(t) ==
    /\ pc[t] = "idle"
    /\ res' = [res EXCEPT ![t] = "validation_error"]
    /\ Hand(t, NoObj)
    /\ healed' = [healed EXCEPT ![t] = FALSE]
    /\ UNCHANGED <<pc, key, final, tmp, lock, cache, db, diskEnabled, maxsize, joined, info>>
    /\ UNCHANGED <<mval, fblob, tblob, dataDir>>
    /\ UNCHANGED <<ovars, xvars, conns>>

\* read_from_disk_cache looking at the temporary path instead of the final one.
DiskFileTmp(k) == tmp[k]

\* The path read_from_disk_cache loads: disk_cache_path(field, timestep_idx, quality).
DiskFile(k) == final[k]

\* read_from_disk_cache letting the exception of np.load escape.
OnLoadFailureRaise == "raise"

\* read_from_disk_cache, lines 224-229: an exception of np.load is caught, the file
\* is unlinked and None is returned.
OnLoadFailure == "unlink"

\* utils.read_from_disk_cache: a miss when the tier is disabled or the file is absent;
\* a file that loads is returned (a read-only memmap); a file that does not load is
\* unlinked and reported as a miss.
ReadFromDiskCache(t) ==
    /\ pc[t] = "disk"
    /\ IF diskEnabled /\ DiskFile(key[t]) = "complete"
       THEN /\ Finish(t, "disk")
            /\ Hand(t, Memmap(t, key[t]))
            /\ UNCHANGED <<final, fblob, healed>>
       ELSE IF diskEnabled /\ DiskFile(key[t]) \in {"partial", "corrupt"}
       THEN IF OnLoadFailure = "unlink"
            THEN /\ pc' = [pc EXCEPT ![t] = "lru"]
                 /\ final' = [final EXCEPT ![key[t]] = "absent"]
                 /\ fblob' = [fblob EXCEPT ![key[t]] = 0]
                 /\ healed' = [healed EXCEPT ![t] = TRUE]
                 /\ UNCHANGED <<res, joined, held>>
            ELSE /\ Finish(t, "cache_error")
                 /\ Hand(t, NoObj)
                 /\ healed' = [healed EXCEPT ![t] = TRUE]
                 /\ UNCHANGED <<final, fblob>>
       ELSE /\ pc' = [pc EXCEPT ![t] = "lru"]
            /\ UNCHANGED <<res, joined, held, final, fblob, healed>>
    /\ UNCHANGED <<key, tmp, lock, cache, db, diskEnabled, maxsize, info>>
    /\ UNCHANGED <<mval, tblob, dataDir>>
    /\ UNCHANGED <<ovars, xvars, conns>>

\* The lru_cache wrapper of _read_dataset_cached, lookup under the cache's lock.
LruLookup(t) ==
    /\ pc[t] = "lru"
    /\ IF InCache(key[t])
       THEN /\ cache' = LruTouch(cache, key[t])
            /\ Finish(t, "mem")
            /\ Hand(t, CacheHit(t, key[t]))
       ELSE /\ pc' = [pc EXCEPT ![t] = "connect"]
            /\ UNCHANGED <<cache, res, joined, held>>
    /\ UNCHANGED <<key, final, tmp, lock, db, diskEnabled, maxsize, info>>
    /\ UNCHANGED <<mval, fblob, tblob, dataDir, healed>>
    /\ UNCHANGED <<ovars, xvars, conns>>

\* get_database_connection and the start of db.read made to wait until no other
\* thread is inside db.read and _disk_cache_lock is free.
GetDatabaseConnectionSerial(t, ok) ==
    /\ pc[t] = "connect"
    /\ lock = 0
    /\ \A u \in Threads \ {t} : pc[u] # "reading"
    /\ IF db = 1 \/ ok
       THEN /\ db' = 1
            /\ pc' = [pc EXCEPT ![t] = "reading"]
            /\ UNCHANGED <<res, joined, held>>
       ELSE /\ Finish(t, "fetch_error")
            /\ Hand(t, NoObj)
            /\ UNCHANGED db
    /\ UNCHANGED <<key, final, tmp, lock, cache, diskEnabled, maxsize, info>>
    /\ UNCHANGED <<mval, fblob, tblob, dataDir, healed>>
    /\ UNCHANGED <<ovars, xvars, conns>>

\* get_database_connection: opens the dataset when _db is None; a failure is raised
\* as DataLoadingError. The call as one step; the section on the connection takes
\* its steps one by one.
GetDatabaseConnection(t, ok) ==
    /\ pc[t] = "connect"
    /\ IF db = 1 \/ ok
       THEN /\ db' = 1
            /\ pc' = [pc EXCEPT ![t] = "reading"]
            /\ UNCHANGED <<res, joined, held>>
       ELSE /\ Finish(t, "fetch_error")
            /\ Hand(t, NoObj)
            /\ UNCHANGED db
    /\ UNCHANGED <<key, final, tmp, lock, cache, diskEnabled, maxsize, info>>
    /\ UNCHANGED <<mval, fblob, tblob, dataDir, healed>>
    /\ UNCHANGED <<ovars, xvars, conns>>

\* db.read(...) returns (then data.setflags(write=False)) or raises; the exception
\* leaves _read_dataset_cached before write_to_disk_cache, the lru_cache stores
\* nothing, and load_data raises DataLoadingError.
DbRead(t, ok) ==
    /\ pc[t] = "reading"
    /\ IF ok
       THEN /\ pc' = [pc EXCEPT ![t] = "wcheck"]
            /\ joined' = [joined EXCEPT ![t] = FALSE]
            /\ UNCHANGED <<res, held>>
       ELSE /\ Finish(t, "fetch_error")
            /\ Hand(t, NoObj)
    /\ UNCHANGED <<key, final, tmp, lock, cache, db, diskEnabled, maxsize, info>>
    /\ UNCHANGED <<mval, fblob, tblob, dataDir, healed>>
    /\ UNCHANGED <<ovars, xvars, conns>>

\* write_to_disk_cache returning at once whatever it finds.
WriteSkippedAlways(k) == TRUE

\* write_to_disk_cache testing only whether the file exists.
WriteSkippedIfExists(k) == final[k] # "absent"

\* write_to_disk_cache, lines 234-239: nothing to do when the tier is disabled or
\* the file exists.
WriteSkipped(k) == ~diskEnabled \/ final[k] # "absent"

\* write_to_disk_cache, lines 234-239. The test is made before _disk_cache_lock is
\* taken.
WriteCheck(t) ==
    /\ pc[t] = "wcheck"
    /\ pc' = [pc EXCEPT ![t] = IF WriteSkipped(key[t]) THEN "insert" ELSE "wlock"]
    /\ UNCHANGED <<key, res, final, tmp, lock, cache, db, diskEnabled, maxsize, joined, info>>
    /\ UNCHANGED tvars
    /\ UNCHANGED <<ovars, xvars, conns>>

\* np.save writing straight to the final path.
SaveTargetFinal == "final"

\* The path np.save writes to: tmp_path = path.with_suffix('.tmp.npy').
SaveTarget == "tmp"

\* write_to_disk_cache, lines 246-252: on any exception both tmp_path and path are
\* unlinked when they exist; the lock is released and the error is swallowed.
WriteFailed(t) ==
    /\ tmp' = [tmp EXCEPT ![key[t]] = "absent"]
    /\ final' = [final EXCEPT ![key[t]] = "absent"]
    /\ tblob' = [tblob EXCEPT ![key[t]] = 0]
    /\ fblob' = [fblob EXCEPT ![key[t]] = 0]
    /\ lock' = 0
    /\ pc' = [pc EXCEPT ![t] = "insert"]

\* write_to_disk_cache, lines 242-244: take _disk_cache_lock, np.save opens the file
\* (created or truncated) and starts to write; it raises at once when the directory
\* does not exist.
SaveBegin(t) ==
    /\ pc[t] = "wlock"
    /\ lock = 0
    /\ IF dataDir
       THEN /\ lock' = t
            /\ IF SaveTarget = "tmp"
               THEN /\ tmp' = [tmp EXCEPT ![key[t]] = "partial"]
                    /\ tblob' = [tblob EXCEPT ![key[t]] = ReadArray(t, key[t]).of]
                    /\ UNCHANGED <<final, fblob>>
               ELSE /\ final' = [final EXCEPT ![key[t]] = "partial"]
                    /\ fblob' = [fblob EXCEPT ![key[t]] = ReadArray(t, key[t]).of]
                    /\ UNCHANGED <<tmp, tblob>>
            /\ pc' = [pc EXCEPT ![t] = "saving"]
       ELSE WriteFailed(t)
    /\ UNCHANGED <<key, res, cache, db, diskEnabled, maxsize, joined, info>>
    /\ UNCHANGED <<held, mval, dataDir, healed>>
    /\ UNCHANGED <<ovars, xvars, conns>>

\* np.save finishes writing the blob, or raises (disk full, I/O error).
SaveEnd(t, ok) ==
    /\ pc[t] = "saving"
    /\ IF ok
       THEN /\ IF SaveTarget = "tmp"
               THEN tmp' = [tmp EXCEPT ![key[t]] = "complete"] /\ UNCHANGED final
               ELSE final' = [final EXCEPT ![key[t]] = "complete"] /\ UNCHANGED tmp
            /\ pc' = [pc EXCEPT ![t] = "replace"]
            /\ UNCHANGED <<lock, fblob, tblob>>
       ELSE WriteFailed(t)
    /\ UNCHANGED <<key, res, cache, db, diskEnabled, maxsize, joined, info>>
    /\ UNCHANGED <<held, mval, dataDir, healed>>
    /\ UNCHANGED <<ovars, xvars, conns>>

\* os.replace(tmp_path, path): the rename is atomic; or it raises.
Replace(t, ok) ==
    /\ pc[t] = "replace"
    /\ IF ok
       THEN /\ final' = [final EXCEPT ![key[t]] = tmp[key[t]]]
            /\ fblob' = [fblob EXCEPT ![key[t]] = tblob[key[t]]]
            /\ tmp' = [tmp EXCEPT ![key[t]] = "absent"]
            /\ tblob' = [tblob EXCEPT ![key[t]] = 0]
            /\ lock' = 0
            /\ pc' = [pc EXCEPT ![t] = "insert"]
       ELSE WriteFailed(t)
    /\ UNCHANGED <<key, res, cache, db, diskEnabled, maxsize, joined, info>>
    /\ UNCHANGED <<held, mval, dataDir, healed>>
    /\ UNCHANGED <<ovars, xvars, conns>>

\* The values of the lru_cache after the wrapper stored o under k: an entry that is
\* already there keeps its object, a dropped entry loses it.
MvalPut(k, o) ==
    [j \in Keys |->
        IF \A i \in 1..Len(LruPut(cache, k)) : LruPut(cache, k)[i] # j THEN NoObj
        ELSE IF j = k /\ ~InCache(k) THEN o
        ELSE mval[j]]

\* The lru_cache wrapper stores the value _read_dataset_cached returned; load_data
\* returns the raster.
LruInsert(t) ==
    /\ pc[t] = "insert"
    /\ cache' = LruPut(cache, key[t])
    /\ mval' = MvalPut(key[t], ReadArray(t, key[t]))
    /\ Finish(t, "remote")
    /\ Hand(t, ReadArray(t, key[t]))
    /\ UNCHANGED <<key, final, tmp, lock, db, diskEnabled, maxsize, info>>
    /\ UNCHANGED <<fblob, tblob, dataDir, healed>>
    /\ UNCHANGED <<ovars, xvars, conns>>

\* The process stops at any point (also in the middle of a disk write) and is
\* started again: threads, lock, connection and memory cache are gone, the cache
\* directory is kept.
Restart ==
    /\ pc' = [t \in Threads |-> "idle"]
    /\ res' = [t \in Threads |-> "none"]
    /\ joined' = [t \in Threads |-> FALSE]
    /\ lock' = 0
    /\ cache' = <<>>
    /\ db' = 0
    /\ info' = [k \in Keys |->
                  IF ~InCache(k) THEN "none"
                  ELSE IF diskEnabled /\ final[k] = "complete" THEN "persisted"
                  ELSE "lost"]
    /\ held' = [t \in Observed |-> NoObj]
    /\ mval' = [k \in Keys |-> NoObj]
    /\ healed' = [t \in Threads |-> FALSE]
    /\ dataDir' = EnsureCacheEnvironment(dataDir, diskEnabled)
    /\ conns' = Conns0
    /\ UNCHANGED <<key, final, tmp, diskEnabled, maxsize, fblob, tblob>>
    /\ UNCHANGED <<ovars, xvars>>

Next ==
    \/ \E t \in Threads, k \in Keys : Call(t, k)
    \/ \E t \in Threads : CallInvalid(t)
    \/ \E t \in Threads : ReadFromDiskCache(t)
    \/ \E t \in Threads : LruLookup(t)
    \/ \E t \in Threads, ok \in BOOLEAN : GetDatabaseConnection(t, ok)
    \/ \E t \in Threads, ok \in BOOLEAN : DbRead(t, ok)
    \/ \E t \in Threads : WriteCheck(t)
    \/ \E t \in Threads : SaveBegin(t)
    \/ \E t \in Threads, ok \in BOOLEAN : SaveEnd(t, ok)
    \/ \E t \in Threads, ok \in BOOLEAN : Replace(t, ok)
    \/ \E t \in Threads : LruInsert(t)

Spec == Init /\ [][Next]_vars

NextRestart ==
    \/ \E t \in Threads, k \in RestartKeys : Call(t, k)
    \/ \E t \in Threads : ReadFromDiskCache(t)
    \/ \E t \in Threads : LruLookup(t)
    \/ \E t \in Threads, ok \in BOOLEAN : GetDatabaseConnection(t, ok)
    \/ \E t \in Threads, ok \in BOOLEAN : DbRead(t, ok)
    \/ \E t \in Threads : WriteCheck(t)
    \/ \E t \in Threads : SaveBegin(t)
    \/ \E t \in Threads, ok \in BOOLEAN : SaveEnd(t, ok)
    \/ \E t \in Threads, ok \in BOOLEAN : Replace(t, ok)
    \/ \E t \in Threads : LruInsert(t)
    \/ Restart

SpecRestart == Init /\ [][NextRestart]_vars

\* ============================================================ orchestrator
N == Len(items)

\* One load_data call run to its end in one step: ParameterValidationError for an
\* invalid item; else _read_dataset: disk hit, memory hit, or the remote read, which
\* raises (DataLoadingError) or returns.
ItemOutcome(n, rok) ==
    IF n \in bad THEN "verr"
    ELSE IF (diskEnabled /\ DiskFile(n) = "complete") \/ InCache(n) \/ rok THEN "ok"
    ELSE "ferr"

\* The caches after that load_data call: a memory hit touches the entry; a remote
\* read that returned writes the disk file (when the write succeeds) and inserts
\* into the lru_cache.
LoadData(n, rok, wok) ==
    IF n \in bad \/ (diskEnabled /\ DiskFile(n) = "complete")
    THEN UNCHANGED <<final, cache, db, mval, fblob>>
    ELSE IF InCache(n)
    THEN cache' = LruTouch(cache, n) /\ UNCHANGED <<final, db, mval, fblob>>
    ELSE IF rok
    THEN /\ db' = 1
         /\ final' = IF diskEnabled /\ final[n] = "absent" /\ wok
                     THEN [final EXCEPT ![n] = "complete"] ELSE final
         /\ fblob' = IF diskEnabled /\ final[n] = "absent" /\ wok
                     THEN [fblob EXCEPT ![n] = ReadArray(0, n).of] ELSE fblob
         /\ cache' = LruPut(cache, n)
         /\ mval' = MvalPut(n, ReadArray(0, n))
    ELSE UNCHANGED <<final, cache, db, mval, fblob>>

\* What load_data returns for item i (the payload names its variable or date), and
\* the marker load_data_batch stores for a failed request.
Payload(i) == <<"ok", items[i]>>
Marker(i) == <<"error", items[i]>>
None == <<"none", 0>>

\* load_data_batch catches the exception of every item (lines 140-147); the list
\* comprehensions and the future.result() calls of load_variables and
\* load_time_series do not.
CatchesAll(m) == TRUE

CatchesNone(m) == FALSE

Catches(m) == m = "batch"

\* A pool with a worker for every submitted item.
WidthOfAll == N

\* The worker count: max_workers or min(config.MAX_WORKERS, len(items)).
Width ==
    IF maxw # <<>> /\ maxw[1] # 0 THEN maxw[1]
    ELSE IF MAX_WORKERS < N THEN MAX_WORKERS ELSE N

\* load_data_batch loops over its requests; load_variables is sequential for one
\* variable or an explicit max_workers <= 1 (line 173); load_time_series is
\* sequential when the worker count is <= 1 (lines 240-241).
Sequential ==
    CASE mode = "batch" -> TRUE
      [] mode = "variables" -> N = 1 \/ (maxw # <<>> /\ maxw[1] <= 1)
      [] OTHER -> Width <= 1

\* variables.index(v): the first position of v in the input.
FirstIndex(v) == CHOOSE p \in 1..N : items[p] = v /\ \A q \in 1..(p - 1) : items[q] # v

\* ordered.sort(key=lambda item: variables.index(item[0])): a stable sort of the
\* (var, payload) pairs, in completion order, by the first position of var.
RECURSIVE SortFrom(_, _)
SortFrom(seq, p) ==
    IF p > N THEN <<>>
    ELSE SelectSeq(seq, LAMBDA e : FirstIndex(e[2]) = p) \o SortFrom(seq, p + 1)

SortByIndex(seq) == SortFrom(seq, 1)

\* The list load_variables returns from the pool path (lines 189-190); the one
\* load_time_series returns is ordered itself (line 253).
PoolResult == IF mode = "variables" THEN SortByIndex(ordered) ELSE ordered

Returned(list) == [kind |-> "returned", list |-> list, err |-> 0]
Raised(i) == [kind |-> "raised", list |-> <<>>, err |-> i]

\* The item lists a call can be given: any list of requests or variables (duplicates
\* included); the dates of a time series are strictly increasing.
ItemLists(m) ==
    LET all == UNION {[1..n -> Names] : n \in 0..MaxItems}
    IN  IF m = "series"
        THEN {l \in all : Len(l) >= 1 /\ \A i \in 1..(Len(l) - 1) : l[i] < l[i + 1]}
        ELSE all

InitOrch ==
    /\ pc = [t \in Threads |-> "idle"]
    /\ key = [t \in Threads |-> 1]
    /\ res = [t \in Threads |-> "none"]
    /\ final = [k \in Keys |-> "absent"]
    /\ tmp = [k \in Keys |-> "absent"]
    /\ lock = 0
    /\ cache = <<>>
    /\ db = 0
    /\ diskEnabled = TRUE
    /\ maxsize = 1
    /\ joined = [t \in Threads |-> FALSE]
    /\ info = [k \in Keys |-> "none"]
    /\ mode \in {"batch", "variables", "series"}
    /\ items \in ItemLists(mode)
    /\ bad \in SUBSET {items[i] : i \in 1..Len(items)}
    /\ maxw \in {<<>>} \cup {<<n>> : n \in 0..MaxWorkersArg}
    /\ (mode = "batch" => maxw = <<>>)
    /\ opc = "call"
    /\ st = [i \in 1..N |-> "pending"]
    /\ out = [i \in 1..N |-> "none"]
    /\ consumed = {}
    /\ ordered = <<>>
    /\ outcome = [kind |-> "none", list |-> <<>>, err |-> 0]
    /\ held = [t \in {} |-> NoObj]
    /\ mval = [k \in Keys |-> NoObj]
    /\ fblob = [k \in Keys |-> 0]
    /\ tblob = [k \in Keys |-> 0]
    /\ dataDir = EnsureCacheEnvironment(FALSE, TRUE)
    /\ healed = [t \in Threads |-> FALSE]
    /\ conv = Conv0
    /\ ts = Ts0
    /\ conns = Conns0

\* The call is entered: an empty variable list raises ParameterValidationError
\* (line 162), an empty batch returns []; else the sequential loop or the pool,
\* where all items are submitted (lines 184-185, 245-249).
Dispatch ==
    /\ opc = "call"
    /\ IF N = 0
       THEN /\ opc' = "done"
            /\ outcome' = IF mode = "batch" THEN Returned(<<>>) ELSE Raised(0)
            /\ UNCHANGED ordered
       ELSE /\ opc' = IF Sequential THEN "seq" ELSE "pool"
            /\ ordered' = IF ~Sequential /\ mode = "series"
                          THEN [i \in 1..N |-> None] ELSE <<>>
            /\ UNCHANGED outcome
    /\ UNCHANGED <<mode, items, bad, maxw, st, out, consumed>>
    /\ UNCHANGED <<cvars, tvars, xvars, conns>>

\* One turn of the sequential loop: load_data of the next item. Its result is
\* appended; its exception is stored as a marker by load_data_batch and ends the
\* call in load_variables and load_time_series. After the last item the list is
\* returned.
SeqStep(rok, wok) ==
    /\ opc = "seq"
    /\ LET i == Len(ordered) + 1
           o == ItemOutcome(items[i], rok)
           next == Append(ordered, IF o = "ok" THEN Payload(i) ELSE Marker(i))
       IN  /\ i <= N
           /\ LoadData(items[i], rok, wok)
           /\ out' = [out EXCEPT ![i] = o]
           /\ st' = [st EXCEPT ![i] = "done"]
           /\ IF o # "ok" /\ ~Catches(mode)
              THEN /\ opc' = "done"
                   /\ outcome' = Raised(i)
                   /\ UNCHANGED ordered
              ELSE /\ ordered' = next
                   /\ opc' = IF i = N THEN "done" ELSE "seq"
                   /\ outcome' = IF i = N THEN Returned(next) ELSE outcome
    /\ UNCHANGED <<mode, items, bad, maxw, consumed>>
    /\ UNCHANGED <<pc, key, res, tmp, lock, diskEnabled, maxsize, joined, info>>
    /\ UNCHANGED <<held, tblob, dataDir, healed, xvars, conns>>

Running == {i \in 1..N : st[i] = "running"}

\* A free worker of the executor takes the oldest submitted item that has not
\* started; at most Width workers run.
StartItem(i) ==
    /\ opc \in {"pool", "shutdown"}
    /\ st[i] = "pending"
    /\ \A j \in 1..(i - 1) : st[j] # "pending"
    /\ Cardinality(Running) < Width
    /\ st' = [st EXCEPT ![i] = "running"]
    /\ UNCHANGED <<mode, items, bad, maxw, opc, out, consumed, ordered, outcome>>
    /\ UNCHANGED <<cvars, tvars, xvars, conns>>

\* The worker's _load(item) ends: the future holds load_data's result or exception.
FinishItem(i, rok, wok) ==
    /\ opc \in {"pool", "shutdown"}
    /\ st[i] = "running"
    /\ LoadData(items[i], rok, wok)
    /\ out' = [out EXCEPT ![i] = ItemOutcome(items[i], rok)]
    /\ st' = [st EXCEPT ![i] = "done"]
    /\ UNCHANGED <<mode, items, bad, maxw, opc, consumed, ordered, outcome>>
    /\ UNCHANGED <<pc, key, res, tmp, lock, diskEnabled, maxsize, joined, info>>
    /\ UNCHANGED <<held, tblob, dataDir, healed, xvars, conns>>

\* as_completed yields a finished future and future.result() is taken (lines
\* 186-187, 250-252): a result is appended with its variable (load_variables) or
\* stored at its index (load_time_series); an exception, which neither function
\* catches, leaves the loop, and the with block then waits for the executor to
\* shut down.
Consume(i) ==
    /\ opc = "pool"
    /\ st[i] = "done"
    /\ i \notin consumed
    /\ consumed' = consumed \cup {i}
    /\ IF out[i] = "ok" \/ Catches(mode)
       THEN /\ LET e == IF out[i] = "ok" THEN Payload(i) ELSE Marker(i)
               IN  ordered' = IF mode = "variables" THEN Append(ordered, e)
                              ELSE [ordered EXCEPT ![i] = e]
            /\ UNCHANGED <<opc, outcome>>
       ELSE /\ opc' = "shutdown"
            /\ outcome' = [outcome EXCEPT !.err = i]
            /\ UNCHANGED ordered
    /\ UNCHANGED <<mode, items, bad, maxw, st, out>>
    /\ UNCHANGED <<cvars, tvars, xvars, conns>>

\* Every future was consumed: the with block ends (all workers are idle) and the
\* list is returned, load_variables sorting it first.
PoolReturn ==
    /\ opc = "pool"
    /\ consumed = 1..N
    /\ opc' = "done"
    /\ outcome' = Returned(PoolResult)
    /\ UNCHANGED <<mode, items, bad, maxw, st, out, consumed, ordered>>
    /\ UNCHANGED <<cvars, tvars, xvars, conns>>

\* The with block left with executor.shutdown(wait=False): the exception is raised
\* while submitted items may still be waiting or running.
ShutdownNoWait ==
    /\ opc = "shutdown"
    /\ opc' = "done"
    /\ outcome' = Raised(outcome.err)
    /\ UNCHANGED <<mode, items, bad, maxw, st, out, consumed, ordered>>
    /\ UNCHANGED <<cvars, tvars, xvars, conns>>

\* executor.shutdown(wait=True) at the end of the with block: the submitted items
\* all run to their end, then the exception of the consumed future is raised.
ShutdownRaise ==
    /\ opc = "shutdown"
    /\ \A i \in 1..N : st[i] = "done"
    /\ opc' = "done"
    /\ outcome' = Raised(outcome.err)
    /\ UNCHANGED <<mode, items, bad, maxw, st, out, consumed, ordered>>
    /\ UNCHANGED <<cvars, tvars, xvars, conns>>

NextOrch ==
    \/ Dispatch
    \/ \E rok, wok \in BOOLEAN : SeqStep(rok, wok)
    \/ \E i \in 1..N : StartItem(i)
    \/ \E i \in 1..N, rok, wok \in BOOLEAN : FinishItem(i, rok, wok)
    \/ \E i \in 1..N : Consume(i)
    \/ PoolReturn
    \/ ShutdownRaise

SpecOrch == InitOrch /\ [][NextOrch]_vars

\* ================================================================ quiescence
\* The module state right after import (data_loader.py lines 25-29 and 44): no call
\* is running, the caches are empty, no orchestrated call is under way.
Quiet ==
    /\ pc = [t \in Threads |-> "idle"]
    /\ key = [t \in Threads |-> 1]
    /\ res = [t \in Threads |-> "none"]
    /\ tmp = [k \in Keys |-> "absent"]
    /\ lock = 0
    /\ cache = <<>>
    /\ db = 0
    /\ joined = [t \in Threads |-> FALSE]
    /\ info = [k \in Keys |-> "none"]
    /\ mode = "batch"
    /\ items = <<>>
    /\ bad = {}
    /\ maxw = <<>>
    /\ opc = "idle"
    /\ st = <<>>
    /\ out = <<>>
    /\ consumed = {}
    /\ ordered = <<>>
    /\ outcome = [kind |-> "none", list |-> <<>>, err |-> 0]
    /\ mval = [k \in Keys |-> NoObj]
    /\ tblob = [k \in Keys |-> 0]
    /\ healed = [t \in Threads |-> FALSE]
    /\ conns = Conns0

\* ================================================================ dates
\* A date is <<year, month, day>>.
\* Number of years, from FirstYear on, the dates of the conversions are drawn from.
NYears == 8

\* timestep_index_to_date: year = 1950  # Dataset starts at 1950.
FirstYear == 1950

\* is_leap = (year % 4 == 0 and year % 100 != 0) or (year % 400 == 0)
IsLeap(y) == (y % 4 = 0 /\ y % 100 # 0) \/ y % 400 = 0

\* days_in_year = 366 if is_leap else 365
DaysInYear(y) == IF IsLeap(y) THEN 366 ELSE 365

\* The calendar of datetime.
DaysInMonth(y, m) ==
    IF m = 2 THEN (IF IsLeap(y) THEN 29 ELSE 28)
    ELSE IF m \in {4, 6, 9, 11} THEN 30
    ELSE 31

\* The valid dates of a set of years.
DatesOf(years) ==
    {d \in years \X (1..12) \X (1..31) : d[3] <= DaysInMonth(d[1], d[2])}

\* Calendar order of two dates (datetime.__lt__).
Before(d, e) ==
    \/ d[1] < e[1]
    \/ d[1] = e[1] /\ d[2] < e[2]
    \/ d[1] = e[1] /\ d[2] = e[2] /\ d[3] < e[3]

RECURSIVE DaysBeforeMonth(_, _)
DaysBeforeMonth(y, m) ==
    IF m = 1 THEN 0 ELSE DaysBeforeMonth(y, m - 1) + DaysInMonth(y, m - 1)

\* day_of_year = (date - datetime(date.year, 1, 1)).days: 0 on January 1st.
DayOfYear(d) == DaysBeforeMonth(d[1], d[2]) + d[3] - 1

\* datetime + timedelta(days=n), n >= 0.
RECURSIVE AddDays(_, _)
AddDays(d, n) ==
    IF d[3] + n <= DaysInMonth(d[1], d[2]) THEN <<d[1], d[2], d[3] + n>>
    ELSE AddDays(IF d[2] = 12 THEN <<d[1] + 1, 1, 1>> ELSE <<d[1], d[2] + 1, 1>>,
                 n - (DaysInMonth(d[1], d[2]) - d[3] + 1))

\* utils.date_to_timestep_index: date.year * days_in_year + day_of_year.
date_to_timestep_index(d) == d[1] * DaysInYear(d[1]) + DayOfYear(d)

\* The while loop of timestep_index_to_date, lines 119-127, run for at most n turns
\* from (year, days_counted): whole years are counted off until the year that
\* holds the timestep; <<year, days_counted>> after the last turn.
RECURSIVE YearLoopTurns(_, _, _, _)
YearLoopTurns(year, days_counted, timestep, n) ==
    IF n = 0 \/ days_counted + DaysInYear(year) > timestep THEN <<year, days_counted>>
    ELSE YearLoopTurns(year + 1, days_counted + DaysInYear(year), timestep, n - 1)

\* The same loop run to its break, 64 turns at a time (the turns are those of the
\* code; they are grouped to keep the evaluation shallow).
RECURSIVE YearLoop(_, _, _)
YearLoop(year, days_counted, timestep) ==
    LET at == YearLoopTurns(year, days_counted, timestep, 64)
    IN  IF at[2] + DaysInYear(at[1]) > timestep THEN at
        ELSE YearLoop(at[1], at[2], timestep)

\* utils.timestep_index_to_date: datetime(year, 1, 1) + timedelta(days=timestep - days_counted),
\* the count starting at 1950 with days_counted = 0.
timestep_index_to_date(timestep) ==
    LET at == YearLoop(FirstYear, 0, timestep)
    IN  AddDays(<<at[1], 1, 1>>, timestep - at[2])

\* The dates of the supported range the conversions are applied to.
Dates == DatesOf(FirstYear..(FirstYear + NYears - 1))

InitDates ==
    /\ Quiet
    /\ final = [k \in Keys |-> "absent"]
    /\ fblob = [k \in Keys |-> 0]
    /\ diskEnabled = TRUE
    /\ maxsize = 1
    /\ dataDir = EnsureCacheEnvironment(FALSE, TRUE)
    /\ held = [t \in {} |-> NoObj]
    /\ ts = Ts0
    /\ conv \in {[Conv0 EXCEPT !.date = d, !.stage = "date"] : d \in Dates}

\* timestep_idx = utils.date_to_timestep_index(date) (load_data line 97).
ToIndex ==
    /\ conv.stage = "date"
    /\ conv' = [conv EXCEPT !.timestep = date_to_timestep_index(conv.date), !.stage = "index"]
    /\ UNCHANGED <<cvars, ovars, tvars, ts, conns>>

\* utils.timestep_index_to_date applied to the index.
ToDate ==
    /\ conv.stage = "index"
    /\ conv' = [conv EXCEPT !.back = timestep_index_to_date(conv.timestep), !.stage = "back"]
    /\ UNCHANGED <<cvars, ovars, tvars, ts, conns>>

NextDates ==
    \/ ToIndex
    \/ ToDate

SpecDates == InitDates /\ [][NextDates]_vars

\* ================================================================ time series
\* Longest requested range of a time series, in days from the start date.
MaxSpan == 59
\* Largest step_days argument.
MaxStep == 30
\* Largest config.MAX_TIME_SERIES_POINTS setting.
MaxCap == 4

\* The start date of the requests (test.py line 233).
SeriesStart == <<1999, 1, 1>>

\* The while loop of load_time_series, lines 211-215, with the end date appended
\* when the steps do not land on it.
RECURSIVE StepDatesWithEnd(_, _, _)
StepDatesWithEnd(current, end, step) ==
    IF Before(end, current) THEN <<>>
    ELSE IF current # end /\ Before(end, AddDays(current, step)) THEN <<current, end>>
    ELSE <<current>> \o StepDatesWithEnd(AddDays(current, step), end, step)

\* The loop with the test current < end_date: the end date itself is left out.
RECURSIVE StepDatesBelowEnd(_, _, _)
StepDatesBelowEnd(current, end, step) ==
    IF ~Before(current, end) THEN <<>>
    ELSE <<current>> \o StepDatesBelowEnd(AddDays(current, step), end, step)

\* The while loop of load_time_series, lines 211-215: the dates from current on, in
\* steps of step days, that are not after end.
RECURSIVE StepDates(_, _, _)
StepDates(current, end, step) ==
    IF Before(end, current) THEN <<>>
    ELSE <<current>> \o StepDates(AddDays(current, step), end, step)

\* np.linspace(1, n - 1, num=c, dtype=int)[i].
LinspaceFromOne(n, c, i) ==
    IF c = 1 THEN 1
    ELSE IF i = c - 1 THEN n - 1
    ELSE 1 + (i * (n - 2)) \div (c - 1)

\* The points of np.linspace rounded to the nearest integer (halves up) instead of
\* cut down.
LinspaceNearest(n, c, i) ==
    IF c = 1 THEN 0
    ELSE IF i = c - 1 THEN n - 1
    ELSE (2 * i * (n - 1) + (c - 1)) \div (2 * (c - 1))

\* np.linspace(0, n - 1, num=c, dtype=int)[i], 0 <= i < c: a single point is the
\* start; else point i is i * ((n - 1) / (c - 1)) cut to an integer and the last
\* point is n - 1 itself. numpy forms the product in doubles; for the caps of this
\* model (up to 11, lengths below 800) it cuts to the exact quotient.
LinspaceIndex(n, c, i) ==
    IF c = 1 THEN 0
    ELSE IF i = c - 1 THEN n - 1
    ELSE (i * (n - 1)) \div (c - 1)

\* The loop of _evenly_subsample_dates, lines 66-72, from point i on: an index seen
\* before is skipped, else its date is appended.
RECURSIVE Reduce(_, _, _, _)
Reduce(dates, c, i, seen) ==
    IF i >= c THEN <<>>
    ELSE LET idx == LinspaceIndex(Len(dates), c, i)
         IN  IF idx \in seen THEN Reduce(dates, c, i + 1, seen)
             ELSE <<dates[idx + 1]>> \o Reduce(dates, c, i + 1, seen \cup {idx})

\* The last date appended to the result instead of put in the place of its last
\* element.
AppendLast(reduced, dates) ==
    IF reduced # <<>> /\ reduced[Len(reduced)] # dates[Len(dates)]
    THEN Append(reduced, dates[Len(dates)])
    ELSE reduced

\* _evenly_subsample_dates, lines 73-74: a last element other than dates[-1] is
\* replaced by dates[-1].
FixLast(reduced, dates) ==
    IF reduced # <<>> /\ reduced[Len(reduced)] # dates[Len(dates)]
    THEN [reduced EXCEPT ![Len(reduced)] = dates[Len(dates)]]
    ELSE reduced

\* data_loader._evenly_subsample_dates(dates, max_points).
evenly_subsample_dates(dates, max_points) ==
    IF max_points <= 0 \/ Len(dates) <= max_points THEN dates
    ELSE FixLast(Reduce(dates, max_points, 0, {}), dates)

\* The requests: from SeriesStart to an end date up to MaxSpan days later or the day
\* before the start, a step of 0..MaxStep days, a configured cap of 0..MaxCap.
InitSeries ==
    /\ Quiet
    /\ final = [k \in Keys |-> "absent"]
    /\ fblob = [k \in Keys |-> 0]
    /\ diskEnabled = TRUE
    /\ maxsize = 1
    /\ dataDir = EnsureCacheEnvironment(FALSE, TRUE)
    /\ held = [t \in {} |-> NoObj]
    /\ conv = Conv0
    /\ \E n \in 0..MaxSpan, before \in BOOLEAN, s \in 0..MaxStep, c \in 0..MaxCap :
          /\ before => n = 0
          /\ ts = [Ts0 EXCEPT !.start = SeriesStart,
                              !.end = IF before THEN <<SeriesStart[1] - 1, 12, 31>>
                                      ELSE AddDays(SeriesStart, n),
                              !.step = s, !.cap = c, !.stage = "args"]

\* load_time_series, lines 204-218: the arguments are validated and the dates are
\* stepped through.
GenDates ==
    /\ ts.stage = "args"
    /\ IF Before(ts.end, ts.start) \/ ts.step <= 0
       THEN ts' = [ts EXCEPT !.stage = "raised"]
       ELSE LET dates == StepDates(ts.start, ts.end, ts.step)
            IN  ts' = [ts EXCEPT !.dates = dates,
                                 !.stage = IF dates = <<>> THEN "empty" ELSE "dates"]
    /\ UNCHANGED <<cvars, ovars, tvars, conv, conns>>

\* load_time_series, line 219: dates = _evenly_subsample_dates(dates,
\* config.MAX_TIME_SERIES_POINTS); these are the dates the call loads and returns.
Subsample ==
    /\ ts.stage = "dates"
    /\ ts' = [ts EXCEPT !.reduced = evenly_subsample_dates(ts.dates, ts.cap), !.stage = "served"]
    /\ UNCHANGED <<cvars, ovars, tvars, conv, conns>>

NextSeries ==
    \/ GenDates
    \/ Subsample

SpecSeries == InitSeries /\ [][NextSeries]_vars

\* ================================================================ configurations
\* The file of k is damaged outside the program (a truncated or overwritten blob):
\* np.load will raise on it. Files of a disabled tier are never opened; their damage
\* is left out.
Corrupt(k) ==
    /\ diskEnabled
    /\ final[k] = "complete"
    /\ final' = [final EXCEPT ![k] = "corrupt"]
    /\ fblob' = [fblob EXCEPT ![k] = 0]
    /\ UNCHANGED <<pc, key, res, tmp, lock, cache, db, diskEnabled, maxsize, joined, info>>
    /\ UNCHANGED <<held, mval, tblob, dataDir, healed>>
    /\ UNCHANGED <<ovars, xvars, conns>>

\* The key of the one request the callers of these runs repeat (test.py, Test 10:
\* cache_kwargs).
cache_kwargs == 1

\* The process starts with NEX_GDDP_DISABLE_DISK_CACHE set or not (config.py line 188), over
\* a cache root where an earlier run may have left the data-cache directory and
\* complete files in it; ensure_cache_environment runs at import. The arrays every
\* caller is handed are recorded.
InitCfg ==
    /\ Quiet
    /\ diskEnabled \in BOOLEAN
    /\ maxsize = 1
    /\ \E existed \in BOOLEAN :
          /\ dataDir = EnsureCacheEnvironment(existed, diskEnabled)
          /\ final \in [Keys -> {"absent", "complete"}]
          /\ \A k \in Keys : final[k] = "complete" => (existed /\ k = cache_kwargs)
    /\ fblob = [k \in Keys |-> IF final[k] = "complete" THEN RemoteContent(k) ELSE 0]
    /\ held = [t \in Threads |-> NoObj]
    /\ conv = Conv0
    /\ ts = Ts0

NextCfg ==
    \/ \E t \in Threads : Call(t, cache_kwargs)
    \/ \E t \in Threads : ReadFromDiskCache(t)
    \/ \E t \in Threads : LruLookup(t)
    \/ \E t \in Threads, ok \in BOOLEAN : GetDatabaseConnection(t, ok)
    \/ \E t \in Threads, ok \in BOOLEAN : DbRead(t, ok)
    \/ \E t \in Threads : WriteCheck(t)
    \/ \E t \in Threads : SaveBegin(t)
    \/ \E t \in Threads, ok \in BOOLEAN : SaveEnd(t, ok)
    \/ \E t \in Threads, ok \in BOOLEAN : Replace(t, ok)
    \/ \E t \in Threads : LruInsert(t)
    \/ Corrupt(cache_kwargs)

SpecCfg == InitCfg /\ [][NextCfg]_vars

\* ================================================================ memory cache
\* The process runs with the disk cache disabled and NEX_GDDP_MEMORY_CACHE set to
\* MaxCacheSize; the cache root holds nothing.
InitLru ==
    /\ Quiet
    /\ diskEnabled = FALSE
    /\ maxsize = MaxCacheSize
    /\ dataDir = EnsureCacheEnvironment(FALSE, FALSE)
    /\ final = [k \in Keys |-> "absent"]
    /\ fblob = [k \in Keys |-> 0]
    /\ held = [t \in {} |-> NoObj]
    /\ conv = Conv0
    /\ ts = Ts0

NextLru ==
    \/ \E t \in Threads, k \in Keys : Call(t, k)
    \/ \E t \in Threads : ReadFromDiskCache(t)
    \/ \E t \in Threads : LruLookup(t)
    \/ \E t \in Threads, ok \in BOOLEAN : GetDatabaseConnection(t, ok)
    \/ \E t \in Threads, ok \in BOOLEAN : DbRead(t, ok)
    \/ \E t \in Threads : WriteCheck(t)
    \/ \E t \in Threads : LruInsert(t)

SpecLru == InitLru /\ [][NextLru]_vars

\* ================================================================ both tiers
\* _read_dataset_cached.cache_clear() (test.py line 287): the memory cache is
\* emptied; the disk files and the calls under way are left alone.
CacheClear ==
    /\ cache # <<>>
    /\ cache' = <<>>
    /\ mval' = [k \in Keys |-> NoObj]
    /\ UNCHANGED <<pc, key, res, final, tmp, lock, db, diskEnabled, maxsize, joined, info>>
    /\ UNCHANGED <<held, fblob, tblob, dataDir, healed>>
    /\ UNCHANGED <<ovars, xvars, conns>>

\* One key more than the memory cache has room for: the keys the callers of these
\* runs ask for, so that their loads evict each other.
Crowd == {k \in Keys : k <= MEMORY_CACHE_MAXSIZE + 1}

\* The process runs with both tiers on and a memory cache of one entry, so that
\* loads of different keys evict each other; the arrays the first caller is handed
\* are recorded.
InitTiers ==
    /\ Quiet
    /\ diskEnabled = TRUE
    /\ maxsize = 1
    /\ dataDir = EnsureCacheEnvironment(FALSE, TRUE)
    /\ final = [k \in Keys |-> "absent"]
    /\ fblob = [k \in Keys |-> 0]
    /\ held = [t \in {1} |-> NoObj]
    /\ conv = Conv0
    /\ ts = Ts0

NextTiers ==
    \/ \E t \in Threads, k \in Crowd : Call(t, k)
    \/ \E t \in Threads : ReadFromDiskCache(t)
    \/ \E t \in Threads : LruLookup(t)
    \/ \E t \in Threads, ok \in BOOLEAN : GetDatabaseConnection(t, ok)
    \/ \E t \in Threads, ok \in BOOLEAN : DbRead(t, ok)
    \/ \E t \in Threads : WriteCheck(t)
    \/ \E t \in Threads : SaveBegin(t)
    \/ \E t \in Threads, ok \in BOOLEAN : SaveEnd(t, ok)
    \/ \E t \in Threads, ok \in BOOLEAN : Replace(t, ok)
    \/ \E t \in Threads : LruInsert(t)
    \/ CacheClear

SpecTiers == InitTiers /\ [][NextTiers]_vars

\* ================================================================ lasting writes
\* The process runs with the disk cache enabled over a cache root that takes every
\* write (np.save and os.replace do not raise); its callers repeat one request, and
\* the file of the request can be damaged from outside at any time.
InitHeal == InitCfg /\ diskEnabled

NextHeal ==
    \/ \E t \in Threads : Call(t, cache_kwargs)
    \/ \E t \in Threads : ReadFromDiskCache(t)
    \/ \E t \in Threads : LruLookup(t)
    \/ \E t \in Threads, ok \in BOOLEAN : GetDatabaseConnection(t, ok)
    \/ \E t \in Threads, ok \in BOOLEAN : DbRead(t, ok)
    \/ \E t \in Threads : WriteCheck(t)
    \/ \E t \in Threads : SaveBegin(t)
    \/ \E t \in Threads : SaveEnd(t, TRUE)
    \/ \E t \in Threads : Replace(t, TRUE)
    \/ \E t \in Threads : LruInsert(t)
    \/ Corrupt(cache_kwargs)

SpecHeal == InitHeal /\ [][NextHeal]_vars

\* ================================================================ connection
\* get_database_connection taken one step at a time, as worker threads run it: the
\* test of line 35, the open of line 37 and the return of line 41 are separate
\* steps with no lock around them. db is here the dataset object _db holds: 0 is
\* None, n is the n-th object ov.LoadDataset returned.

\* get_database_connection, line 35: if _db is None.
TestDb(t) ==
    /\ pc[t] = "connect"
    /\ pc' = [pc EXCEPT ![t] = IF db = 0 THEN "opening" ELSE "connected"]
    /\ UNCHANGED <<key, res, final, tmp, lock, cache, db, diskEnabled, maxsize, joined, info>>
    /\ UNCHANGED tvars
    /\ UNCHANGED <<ovars, xvars, conns>>

\* get_database_connection, lines 36-39: _db = ov.LoadDataset(config.DATASET_URL)
\* returns a new dataset object, which is stored in _db, or raises, which is
\* raised on as DataLoadingError.
LoadDataset(t, ok) ==
    /\ pc[t] = "opening"
    /\ IF ok
       THEN /\ conns' = [conns EXCEPT !.opened = @ + 1]
            /\ db' = conns.opened + 1
            /\ pc' = [pc EXCEPT ![t] = "connected"]
            /\ UNCHANGED <<res, joined, held>>
       ELSE /\ Finish(t, "fetch_error")
            /\ Hand(t, NoObj)
            /\ UNCHANGED <<db, conns>>
    /\ UNCHANGED <<key, final, tmp, lock, cache, diskEnabled, maxsize, info>>
    /\ UNCHANGED <<mval, fblob, tblob, dataDir, healed>>
    /\ UNCHANGED <<ovars, xvars>>

\* get_database_connection, line 41: return _db; the caller (_read_dataset_cached,
\* line 46) reads from the object it got.
ReturnDb(t) ==
    /\ pc[t] = "connected"
    /\ conns' = [conns EXCEPT !.returned = @ \cup {db}]
    /\ pc' = [pc EXCEPT ![t] = "reading"]
    /\ UNCHANGED <<key, res, final, tmp, lock, cache, db, diskEnabled, maxsize, joined, info>>
    /\ UNCHANGED tvars
    /\ UNCHANGED <<ovars, xvars>>

\* The process runs with the disk cache disabled and nothing loaded yet; its
\* threads load keys of their choice.
InitConn ==
    /\ Quiet
    /\ final = [k \in Keys |-> "absent"]
    /\ fblob = [k \in Keys |-> 0]
    /\ diskEnabled = FALSE
    /\ maxsize = MaxCacheSize
    /\ dataDir = EnsureCacheEnvironment(FALSE, FALSE)
    /\ held = [t \in {} |-> NoObj]
    /\ conv = Conv0
    /\ ts = Ts0

NextConn ==
    \/ \E t \in Threads, k \in Keys : Call(t, k)
    \/ \E t \in Threads : ReadFromDiskCache(t)
    \/ \E t \in Threads : LruLookup(t)
    \/ \E t \in Threads : TestDb(t)
    \/ \E t \in Threads, ok \in BOOLEAN : LoadDataset(t, ok)
    \/ \E t \in Threads : ReturnDb(t)
    \/ \E t \in Threads, ok \in BOOLEAN : DbRead(t, ok)
    \/ \E t \in Threads : WriteCheck(t)
    \/ \E t \in Threads : LruInsert(t)

SpecConn == InitConn /\ [][NextConn]_vars

\* ===================================================================== claims
\* t is in the remote part of its call: connecting or inside db.read.
InRemote(t) == pc[t] \in {"connect", "reading"}

\* C1 (as claimed): single-flight, for every key at most one remote read (db.read)
\* is in flight at any time.
C1_SingleFlight ==
    \A k \in Keys : Cardinality({t \in Threads : pc[t] = "reading" /\ key[t] = k}) <= 1

\* C2 (as claimed): a caller that arrived while a remote read of its key was
\* outstanding waits for that read and shares its outcome, so it never issues a
\* remote read of its own.
C2_WaitersShareFetch ==
    \A t \in Threads : joined[t] => pc[t] # "reading"

\* ------------------------------------------------------------ orchestrator claims
Failed == {i \in 1..N : st[i] = "done" /\ out[i] # "ok"}
LowestFailed == CHOOSE i \in Failed : \A j \in Failed : i <= j
Entry(i) == IF out[i] = "ok" THEN Payload(i) ELSE Marker(i)

\* C3: load_variables and load_time_series return a list as long as the input whose
\* i-th element is the result of the i-th input item, whatever the completion order
\* of the workers.
C3_OrderPreserved ==
    (opc = "done" /\ mode \in {"variables", "series"} /\ outcome.kind = "returned")
        => /\ Len(outcome.list) = N
           /\ \A i \in 1..N : outcome.list[i] = Payload(i)

\* C4 as stated: a time series call in which the load of a date failed raises, and
\* the error is that of the lowest-index failed date, sequentially and on the pool.
C4_FirstFailingItem ==
    (opc = "done" /\ mode = "series" /\ Failed # {})
        => /\ outcome.kind = "raised"
           /\ outcome.err = LowestFailed

\* C4 amended: a time series call in which the load of a date failed raises and
\* returns no list; the error is that of a failed date: the lowest-index failed date
\* when the call runs sequentially, the one failed date whose future the loop over
\* as_completed took when it runs on the pool.
C4_AllOrNothing ==
    (opc = "done" /\ mode = "series" /\ Failed # {})
        => /\ outcome.kind = "raised"
           /\ outcome.list = <<>>
           /\ outcome.err \in Failed
           /\ Sequential => outcome.err = LowestFailed
           /\ ~Sequential => {i \in consumed : out[i] # "ok"} = {outcome.err}

C4_Witness ==
    /\ opc = "done"
    /\ mode = "series"
    /\ ~Sequential
    /\ outcome.kind = "raised"
    /\ outcome.err \in Failed
    /\ outcome.err # LowestFailed

\* C5: load_data_batch never raises for an item failure; it returns a list of length
\* N whose i-th element is the result of request i or the error marker carrying
\* request i, and a failing item does not keep the later items from being loaded.
C5_BatchBestEffort ==
    mode = "batch"
        => /\ outcome.kind # "raised"
           /\ opc = "done"
                => /\ outcome.kind = "returned"
                   /\ Len(outcome.list) = N
                   /\ \A i \in 1..N : st[i] = "done" /\ outcome.list[i] = Entry(i)

C5_Witness ==
    /\ opc = "done"
    /\ mode = "batch"
    /\ outcome.kind = "returned"
    /\ \E i, j \in 1..N :
          /\ i < j
          /\ out[i] # "ok"
          /\ outcome.list[i] = Marker(i)
          /\ out[j] = "ok"
          /\ outcome.list[j] = Payload(j)

\* C6: load_variables with N >= 2 variables delivers the outcome of every variable,
\* one per item, also when the fetch of one of them fails.
C6_SiblingsReported ==
    (opc = "done" /\ mode = "variables" /\ N >= 2)
        => /\ outcome.kind = "returned"
           /\ Len(outcome.list) = N


\* C7 (as claimed): when the remote part of a call fails, the call ends with a fetch
\* error and at that moment neither the disk cache nor the memory cache holds an
\* entry for the key.
C7_FailureCachesNothing ==
    [][\A t \in Threads :
         (InRemote(t) /\ pc'[t] = "idle" /\ res'[t] = "fetch_error")
            => (final'[key[t]] = "absent" /\ \A i \in 1..Len(cache') : cache'[i] # key[t])]_vars

\* C8 (as claimed): once the disk file of a key is written, no later step removes
\* it or renames another blob over it.
C8_DiskWriteOnce ==
    [][\A k \in Keys :
         final[k] = "complete"
            => /\ final'[k] = "complete"
               /\ \A t \in Threads : ~(key[t] = k /\ pc[t] = "replace" /\ pc'[t] = "insert")]_vars

\* C9: at every moment, also while a writer is in the middle of np.save, after a
\* failed write and after the process stopped in the middle of a write, the file
\* under a key's final name is absent or a completely written blob, so
\* read_from_disk_cache never sees a partial file under the final name.
C9_AtomicDiskWrite ==
    \A k \in Keys : final[k] \in {"absent", "complete"}

\* C9 witness: the process stopped in the middle of a write (a partial temporary
\* file is left and nobody holds the lock) and a thread is about to read that
\* key's disk file.
C9_Witness ==
    \E t \in Threads :
        pc[t] = "disk" /\ tmp[key[t]] = "partial" /\ lock = 0 /\ final[key[t]] = "absent"

C17_StrictlyMonotonic ==
    conv.stage = "index"
        => \A e \in Dates : Before(conv.date, e) => conv.timestep < date_to_timestep_index(e)

\* C18 (as claimed): round trip, timestep_index_to_date(date_to_timestep_index(d)) = d
\* for every date d of the supported range.
C18_RoundTrip ==
    conv.stage = "back" => conv.back = conv.date

\* ------------------------------------------------------------ time series claims
StrictlyIncreasing(s) == \A i \in 1..(Len(s) - 1) : Before(s[i], s[i + 1])
Contains(s, d) == \E i \in 1..Len(s) : s[i] = d
Capped == ts.stage = "served" /\ 1 <= ts.cap /\ ts.cap < Len(ts.dates)

\* C19 (as claimed): for a date sequence of length L and a cap C with 1 <= C < L
\* the subsampled sequence has at most C dates, is strictly increasing and contains
\* both the first and the last date of the input.
C19_SubsampleBounds ==
    Capped
        => /\ Len(ts.reduced) <= ts.cap
           /\ StrictlyIncreasing(ts.reduced)
           /\ Contains(ts.reduced, ts.dates[1])
           /\ Contains(ts.reduced, ts.dates[Len(ts.dates)])

\* C19 (amended): for 1 <= C < L the subsampled sequence has at most C dates and is
\* strictly increasing; for C >= 2 it begins with the first and ends with the last
\* date of the input; for C = 1 it is the last date of the input alone.
C19_SubsampleBoundsFromTwo ==
    Capped
        => /\ Len(ts.reduced) <= ts.cap
           /\ StrictlyIncreasing(ts.reduced)
           /\ ts.cap >= 2 => /\ ts.reduced[1] = ts.dates[1]
                             /\ ts.reduced[Len(ts.reduced)] = ts.dates[Len(ts.dates)]
           /\ ts.cap = 1 => ts.reduced = <<ts.dates[Len(ts.dates)]>>

\* C19 witness: a sequence cut to a cap of at least 2 that drops dates between its
\* first and its last date.
C19_Witness ==
    /\ Capped
    /\ ts.cap >= 3
    /\ Len(ts.reduced) = ts.cap
    /\ Len(ts.dates) > ts.cap + 1

Scenario1999 ==
    /\ ts.stage = "served"
    /\ ts.start = <<1999, 1, 1>>
    /\ ts.end = <<1999, 3, 1>>
    /\ ts.step = 30
    /\ ts.cap = 2

\* C20 (as claimed): the request from 1999-01-01 to 1999-03-01 with step_days = 30
\* and a cap of 2 is served for exactly the dates 1999-01-01 and 1999-03-01.
C20_ServedFirstAndEnd ==
    Scenario1999 => {ts.reduced[i] : i \in 1..Len(ts.reduced)} = {<<1999, 1, 1>>, <<1999, 3, 1>>}

\* C20 (amended): that request is served for exactly the dates 1999-01-01 and
\* 1999-01-31: the next step, 1999-03-02, is after the end date, and two dates are
\* within the cap.
C20_ServedSteppedDates ==
    Scenario1999 => ts.reduced = << <<1999, 1, 1>>, <<1999, 1, 31>> >>

\* C20 witness: the request of the scenario was served.
C20_Witness ==
    Scenario1999 /\ Len(ts.dates) = 2

\* ------------------------------------------------------------ raster and tier claims
\* C11: every raster a caller was handed, and every raster the memory cache keeps,
\* is read-only, whether it is a new remote read, the memory cache's array or a
\* memmap of the disk file; and the cache never writes into the file of a memmap in
\* place (the final name only ever gets a complete file by rename).
C11_Immutable ==
    /\ \A t \in Observed : ~held[t].w
    /\ \A k \in Keys : ~mval[k].w
    /\ \A k \in Keys : final[k] # "partial"

\* C11 witness: a caller holds a memmap of a key's file while the memory cache holds
\* the array of that key and another caller holds an array.
C11_Witness ==
    \E t, u \in Observed :
        /\ held[t].kind = "memmap"
        /\ held[u].kind = "array"
        /\ mval[key[t]].kind = "array"

C15_DisabledDiskTier ==
    [][~diskEnabled
         => /\ UNCHANGED <<final, tmp, fblob, tblob, dataDir>>
            /\ \A t \in Threads : res'[t] # "disk"
            /\ \A t \in Threads : pc[t] = "disk" => pc'[t] \in {"disk", "lru"}
            /\ \A t \in Threads : pc[t] = "wcheck" => pc'[t] \in {"wcheck", "insert"}]_vars

\* C15 witness: the tier is disabled and a load was served by a remote read although
\* the file of its key exists in a directory kept from an earlier run.
C15_Witness ==
    /\ ~diskEnabled
    /\ \E t \in Threads :
          /\ pc[t] = "idle"
          /\ res[t] = "remote"
          /\ final[key[t]] = "complete"

C14_BoundedLru ==
    [][/\ Len(cache') <= MEMORY_CACHE_MAXSIZE'
       /\ \A i, j \in 1..Len(cache') : cache'[i] = cache'[j] => i = j
       /\ \A t \in Threads :
            /\ (pc[t] = "insert" /\ pc'[t] = "idle" /\ ~InCache(key[t]))
                  => /\ cache'[Len(cache')] = key[t]
                     /\ IF Len(cache) = MEMORY_CACHE_MAXSIZE
                        THEN Remove(cache', key[t]) = Tail(cache)
                        ELSE Remove(cache', key[t]) = cache
            /\ (pc[t] = "lru" /\ pc'[t] = "idle" /\ res'[t] = "mem")
                  => /\ cache'[Len(cache')] = key[t]
                     /\ Remove(cache', key[t]) = Remove(cache, key[t])
                     /\ Len(cache') = Len(cache)]_vars

\* C14 witness: the cache is full, a caller's memory hit made its key the most
\* recently used of several entries, and the key another caller loaded has been
\* dropped.
C14_Witness ==
    /\ Len(cache) = MEMORY_CACHE_MAXSIZE
    /\ Len(cache) >= 2
    /\ \E t, u \in Threads :
          /\ pc[t] = "idle" /\ res[t] = "mem" /\ cache[Len(cache)] = key[t]
          /\ pc[u] = "idle" /\ res[u] = "remote" /\ ~InCache(key[u])

\* ------------------------------------------------------------ content claims
\* C13: the dataset holding one fixed content per key, every raster a successful
\* load returns holds the content of its key, whether the load was a remote read, a
\* memory hit, a disk hit or a read again after an eviction or a clearing of the
\* memory cache, so all successful loads of a key return the same content; and an
\* entry of the memory cache and a complete file of the disk cache always hold the
\* content of their key.
C13_SameContent ==
    /\ \A t \in Observed : held[t].kind # "none" => held[t].of = RemoteContent(key[t])
    /\ \A k \in Keys : mval[k].kind # "none" => mval[k].of = RemoteContent(k)
    /\ \A k \in Keys : final[k] = "complete" => fblob[k] = RemoteContent(k)

\* C13 witness: a caller holds the memmap of a disk hit for a key that the memory
\* cache no longer holds, while the memory cache holds the array of another key.
C13_Witness ==
    \E t \in Observed :
        /\ pc[t] = "idle"
        /\ res[t] = "disk"
        /\ held[t].kind = "memmap"
        /\ ~InCache(key[t])
        /\ \E k \in Keys : k # key[t] /\ InCache(k) /\ final[k] = "complete"

\* ------------------------------------------------------------ subsampling claims
Min(a, b) == IF a < b THEN a ELSE b

\* C26: for a positive cap C and an input of length L the result is the input
\* itself when L <= C and has exactly C dates otherwise, so its length is min(L, C).
C26_SubsampleLength ==
    (ts.stage = "served" /\ ts.cap >= 1)
        => /\ Len(ts.reduced) = Min(Len(ts.dates), ts.cap)
           /\ Len(ts.dates) <= ts.cap => ts.reduced = ts.dates

\* C26 witness: an input cut to a cap of one date, and so to exactly one date.
C26_Witness ==
    /\ ts.stage = "served"
    /\ ts.cap = 1
    /\ Len(ts.dates) >= 3
    /\ Len(ts.reduced) = 1

\* C27 (as claimed): when L > C the dates kept are those at the indices
\* i * (L - 1) / (C - 1) rounded to the nearest integer, i = 0..C-1.
C27_NearestIndices ==
    (Capped /\ ts.cap >= 2)
        => /\ Len(ts.reduced) = ts.cap
           /\ \A i \in 0..(ts.cap - 1) :
                 ts.reduced[i + 1] = ts.dates[LinspaceNearest(Len(ts.dates), ts.cap, i) + 1]

\* C27 (amended): when L > C >= 2 the dates kept are those at the indices
\* i * (L - 1) / (C - 1) cut down to an integer, i = 0..C-1, the last index being
\* L - 1; when L > C = 1 the date kept is the last one.
C27_TruncatedIndices ==
    Capped
        => IF ts.cap >= 2
           THEN /\ Len(ts.reduced) = ts.cap
                /\ \A i \in 0..(ts.cap - 1) :
                      ts.reduced[i + 1] = ts.dates[(i * (Len(ts.dates) - 1)) \div (ts.cap - 1) + 1]
           ELSE ts.reduced = <<ts.dates[Len(ts.dates)]>>

\* C27 witness: six dates cut to four: the dates at the indices 0, 1, 3 and 5 are
\* kept (the nearest integers would be 0, 2, 3 and 5).
C27_Witness ==
    /\ Capped
    /\ Len(ts.dates) = 6
    /\ ts.cap = 4
    /\ ts.reduced = <<ts.dates[1], ts.dates[2], ts.dates[4], ts.dates[6]>>

\* C28: for start <= end and step_days >= 1 the dates generated are start,
\* start + step, start + 2 * step, ..., all of these up to end and no other, a
\* non-empty strictly increasing sequence; for end < start or step_days <= 0 the
\* call raises its validation error with no date generated.
C28_DateGeneration ==
    /\ ts.stage = "raised" <=> (ts.stage # "args" /\ (Before(ts.end, ts.start) \/ ts.step <= 0))
    /\ ts.stage = "raised" => ts.dates = <<>>
    /\ ts.stage \in {"dates", "served"}
          => /\ ts.dates # <<>>
             /\ \A i \in 1..Len(ts.dates) : ts.dates[i] = AddDays(ts.start, (i - 1) * ts.step)
             /\ StrictlyIncreasing(ts.dates)
             /\ ~Before(ts.end, ts.dates[Len(ts.dates)])
             /\ Before(ts.end, AddDays(ts.dates[Len(ts.dates)], ts.step))
    /\ ts.stage # "empty"

\* C28 witness: a range whose last step lands on the end date, which is generated.
C28_Witness ==
    /\ ts.stage = "dates"
    /\ Len(ts.dates) >= 3
    /\ ts.dates[Len(ts.dates)] = ts.end

\* ------------------------------------------------------------ coordinator claims
\* The steps of one _read_dataset call, in the order of the code.
CallOrder ==
    {<<"idle", "disk">>, <<"disk", "idle">>, <<"disk", "lru">>, <<"lru", "idle">>,
     <<"lru", "connect">>, <<"connect", "idle">>, <<"connect", "reading">>,
     <<"reading", "idle">>, <<"reading", "wcheck">>, <<"wcheck", "wlock">>,
     <<"wcheck", "insert">>, <<"wlock", "saving">>, <<"wlock", "insert">>,
     <<"saving", "replace">>, <<"saving", "insert">>, <<"replace", "insert">>,
     <<"insert", "idle">>}

\* C25: a call asks the disk cache first, the memory cache only after a disk miss
\* and the dataset only after a memory miss; a disk hit is returned at once and
\* leaves the memory cache as it is, entries and order; after a remote read the
\* call goes through write_to_disk_cache, which writes the file when the tier is
\* on and the file is absent, and only then is the key put into the memory cache
\* and the read-only raster returned.
C25_LookupOrder ==
    [][\A t \in Threads :
         /\ pc'[t] # pc[t] => <<pc[t], pc'[t]>> \in CallOrder
         /\ (pc[t] = "disk" /\ pc'[t] = "idle")
               => (res'[t] = "disk" /\ final[key[t]] = "complete" /\ cache' = cache /\ mval' = mval)
         /\ (pc[t] = "disk" /\ pc'[t] = "lru") => (cache' = cache /\ final'[key[t]] = "absent")
         /\ (pc[t] = "lru" /\ pc'[t] = "idle") => (res'[t] = "mem" /\ InCache(key[t]))
         /\ (pc[t] = "lru" /\ pc'[t] = "connect") => ~InCache(key[t])
         /\ (pc[t] = "wcheck" /\ pc'[t] = "wlock") => (diskEnabled /\ final[key[t]] = "absent")
         /\ (pc[t] = "wcheck" /\ pc'[t] = "insert") => (~diskEnabled \/ final[key[t]] # "absent")
         /\ (pc[t] = "insert" /\ pc'[t] = "idle")
               => /\ res'[t] = "remote"
                  /\ \E i \in 1..Len(cache') : cache'[i] = key[t]
                  /\ ~mval'[key[t]].w
                  /\ lock # t]_vars

\* C25 witness: a call was served from the disk file of a key the memory cache does
\* not hold, and another call ended a remote read with its key in the memory cache
\* and its file written.
C25_Witness ==
    \E t, u \in Threads :
        /\ pc[t] = "idle" /\ res[t] = "disk" /\ ~InCache(key[t])
        /\ pc[u] = "idle" /\ res[u] = "remote" /\ InCache(key[u]) /\ final[key[u]] = "complete"

\* No file of the disk cache is damaged.
Undamaged == \A k \in Keys : final[k] \in {"absent", "complete"}

\* Every key the memory cache holds, and every key about to be put into it, has its
\* loadable file.
MemoryBackedByDisk ==
    /\ \A k \in Keys : InCache(k) => final[k] = "complete"
    /\ \A t \in Threads : pc[t] = "insert" => final[key[t]] = "complete"

\* C30 (as claimed): with the disk cache enabled and writes succeeding, every
\* successful load of a key, whichever tier served it, ends with a loadable file of
\* that key in the disk cache (a file damaged from outside at that moment aside).
C30_EveryLoadLeavesFile ==
    [][\A t \in Threads :
         (pc[t] # "idle" /\ pc'[t] = "idle" /\ Ok(res'[t]) /\ final'[key[t]] # "corrupt")
            => final'[key[t]] = "complete"]_vars

\* C30 (amended): with the disk cache enabled and writes succeeding, every key in
\* the memory cache has its loadable file for as long as no file has been damaged;
\* a load served from the memory cache writes nothing, also when its disk read has
\* just deleted a corrupt file of the key.
C30_BackedUntilDamaged ==
    [][/\ (MemoryBackedByDisk /\ Undamaged /\ Undamaged') => MemoryBackedByDisk'
       /\ \A t \in Threads :
             (pc[t] = "lru" /\ pc'[t] = "idle")
                => (res'[t] = "mem" /\ final' = final /\ tmp' = tmp /\ fblob' = fblob)]_vars

\* C30 witness: a call whose disk read deleted a corrupt file was served from the
\* memory cache, and the key is in the memory cache with no file on disk.
C30_Witness ==
    \E t \in Threads :
        /\ pc[t] = "idle" /\ res[t] = "mem" /\ healed[t]
        /\ InCache(key[t]) /\ final[key[t]] = "absent"

\* C29 (as claimed): the process opens the remote dataset at most once, and every
\* caller of get_database_connection gets the same dataset object.
C29_OneConnection ==
    /\ conns.opened <= 1
    /\ Cardinality(conns.returned) <= 1

\* C24: the thread inside db.read holds no lock of either cache, and no step of a
\* call up to and including its remote read waits for another thread: whatever the
\* other threads are doing (reading another key, writing a file under
\* _disk_cache_lock), the disk lookup, the memory lookup, the start of the read and
\* its end can be taken.
C24_ReadsNotSerialized ==
    \A t \in Threads :
        /\ pc[t] \in {"connect", "reading"} => lock # t
        /\ pc[t] = "disk" => ENABLED ReadFromDiskCache(t)
        /\ pc[t] = "lru" => ENABLED LruLookup(t)
        /\ pc[t] = "connect" => ENABLED (\E ok \in BOOLEAN : GetDatabaseConnection(t, ok))
        /\ pc[t] = "reading" => ENABLED (\E ok \in BOOLEAN : DbRead(t, ok))

\* C24 witness: two threads are inside db.read for different keys at the same time.
C24_Witness ==
    \E t, u \in Threads :
        /\ key[t] # key[u]
        /\ pc[t] = "reading" /\ pc[u] = "reading"

\* The maximum parallelism W of a call as the claims state it: the max_workers
\* argument (when given and not 0, as "max_workers or ..." takes it), else the
\* smaller of config.MAX_WORKERS and the number of items.
MaxParallel ==
    IF maxw # <<>> /\ maxw[1] # 0 THEN maxw[1] ELSE Min(MAX_WORKERS, N)

C23_CleanTeardown ==
    (opc = "done" /\ mode \in {"variables", "series"}) =>
        /\ (N > 0 /\ ~Sequential) => (Running = {} /\ \A i \in 1..N : st[i] = "done")
        /\ Running = {}
        /\ outcome.kind = "returned" =>
               /\ Len(outcome.list) = N
               /\ \A i \in 1..N : outcome.list[i] # None

\* C23 witness: a pool call has raised the exception of one item before all
\* futures were consumed, and every item has nevertheless run to its end.
C23_Witness ==
    /\ opc = "done" /\ mode \in {"variables", "series"}
    /\ N = 3 /\ ~Sequential
    /\ outcome.kind = "raised"
    /\ Cardinality(consumed) = 1
    /\ \A i \in 1..N : st[i] = "done"

\* C21 (as claimed): a load_variables or load_time_series call that has ended with
\* the ParameterValidationError of an item (or of its own arguments) has opened no
\* dataset and read nothing from it: the process, which started with empty caches
\* and no connection, still has none.
C21_ValidationBeforeNetwork ==
    (/\ opc = "done" /\ mode \in {"variables", "series"}
     /\ outcome.kind = "raised"
     /\ (outcome.err = 0 \/ out[outcome.err] = "verr"))
        => (db = 0 /\ cache = <<>>)

====
